---- MODULE Spec2Model ----
(***************************************************************************)
(* A model of go/vt/vtgate/engine/plan_description.go: the description     *)
(* builder (PrimitiveToPlanDescription), the hand-ordered JSON writer      *)
(* (PrimitiveDescription.MarshalJSON, addMap, marshalAdd), the row         *)
(* statistics (average, median) and the graph export (GraphViz,            *)
(* addToGraph).                                                            *)
(*                                                                         *)
(* Modelling conventions                                                   *)
(*  - A Go `any` value is a record carrying its dynamic type (kind) and    *)
(*    its payload, so that interface comparisons such as `v == 0` compare  *)
(*    dynamic type and value as Go does.                                   *)
(*  - A byte buffer holding JSON is a sequence of tokens: "{", one token   *)
(*    per `"name":value` written by marshalAdd, and "}".                   *)
(*  - A float64 is an exact rational num/den in lowest terms.              *)
(*  - A slice is a record [isNil, elems] where nil and empty must be told  *)
(*    apart (Inputs), and a plain sequence where only len() is read.       *)
(*  - The operator-specific keys of Other are disjoint from the struct's   *)
(*    own field names (InputName, OperatorType, ..., Inputs).              *)
(***************************************************************************)
EXTENDS Integers, Sequences, FiniteSets, TLC

VARIABLES
    plan,         \* the Primitive tree handed to the package (input)
    stats,        \* map[Primitive]RowsReceived handed to the builder (input)
    description,  \* the PrimitiveDescription tree built from plan
    result,       \* what MarshalJSON returned: [bytes, err]
    g,            \* the *graphviz.Graph being filled by addToGraph
    todo,         \* the graph operations addToGraph has still to perform
    pc            \* where the caller is

vars == <<plan, stats, description, result, g, todo, pc>>

(***************************************************************************)
(* Bounds of the model.                                                    *)
(***************************************************************************)
MaxNodes  == 3   \* primitives in a plan tree
MaxStats  == 3   \* row-count samples recorded for one primitive
MaxSample == 2   \* largest row count in a sample

inputName == "InputName"

(***************************************************************************)
(* Go values of static type `any`.                                         *)
(***************************************************************************)
GoValue(kind, s, n, b, l) == [kind |-> kind, s |-> s, n |-> n, b |-> b, l |-> l]
StringV(s)  == GoValue("string", s, 0, FALSE, <<>>)
NilV        == GoValue("nil", "", 0, FALSE, <<>>)
IntV(n)     == GoValue("int", "", n, FALSE, <<>>)
Int64V(n)   == GoValue("int64", "", n, FALSE, <<>>)
Float64V(n) == GoValue("float64", "", n, FALSE, <<>>)
BoolV(b)    == GoValue("bool", "", 0, b, <<>>)
StringsV(l) == GoValue("[]string", "", 0, FALSE, l)
ChanV       == GoValue("chan", "", 0, FALSE, <<>>)

\* `v == c` for an interface v and an untyped constant c: the constant takes
\* its default type (string, int, bool) and the comparison is on dynamic
\* type and value.
EqStringConst(v, s) == v.kind = "string" /\ v.s = s
EqIntConst(v, n)    == v.kind = "int" /\ v.n = n
EqBoolConst(v, b)   == v.kind = "bool" /\ v.b = b
EqNil(v)            == v.kind = "nil"

(***************************************************************************)
(* Strings: byte-wise lexicographic order, as sort.Strings uses.           *)
(***************************************************************************)
CharCode(c) ==
    CASE c = "F" -> 70 [] c = "Q" -> 81 [] c = "T" -> 84 [] c = "V" -> 86
      [] c = "a" -> 97 [] c = "b" -> 98 [] c = "c" -> 99 [] c = "d" -> 100
      [] c = "e" -> 101 [] c = "i" -> 105 [] c = "l" -> 108 [] c = "r" -> 114
      [] c = "s" -> 115 [] c = "u" -> 117 [] c = "y" -> 121

ByteAt(s, i) == CharCode(SubSeq(s, i, i))

RECURSIVE StringLessFrom(_, _, _)
StringLessFrom(s, t, i) ==
    IF i > Len(t) THEN FALSE
    ELSE IF i > Len(s) THEN TRUE
    ELSE IF ByteAt(s, i) # ByteAt(t, i) THEN ByteAt(s, i) < ByteAt(t, i)
    ELSE StringLessFrom(s, t, i + 1)

StringLess(s, t) == StringLessFrom(s, t, 1)

\* sort.Strings / sort.Ints: insertion of each element into a sorted prefix.
RECURSIVE InsertString(_, _)
InsertString(sorted, x) ==
    IF sorted = <<>> THEN <<x>>
    ELSE IF StringLess(x, Head(sorted)) THEN <<x>> \o sorted
    ELSE <<Head(sorted)>> \o InsertString(Tail(sorted), x)

RECURSIVE SortStrings(_)
SortStrings(a) ==
    IF a = <<>> THEN <<>>
    ELSE InsertString(SortStrings(SubSeq(a, 1, Len(a) - 1)), a[Len(a)])

RECURSIVE InsertInt(_, _)
InsertInt(sorted, x) ==
    IF sorted = <<>> THEN <<x>>
    ELSE IF x < Head(sorted) THEN <<x>> \o sorted
    ELSE <<Head(sorted)>> \o InsertInt(Tail(sorted), x)

RECURSIVE SortInts(_)
SortInts(a) ==
    IF a = <<>> THEN <<>>
    ELSE InsertInt(SortInts(SubSeq(a, 1, Len(a) - 1)), a[Len(a)])

(***************************************************************************)
(* float64 values as rationals in lowest terms.                            *)
(***************************************************************************)
Abs(n) == IF n < 0 THEN -n ELSE n

RECURSIVE GCD(_, _)
GCD(a, b) == IF b = 0 THEN a ELSE GCD(b, a % b)

\* float64(num) / float64(den), den > 0
FloatDiv(num, den) ==
    LET d == GCD(Abs(num), den)
    IN  [num |-> num \div d, den |-> den \div d]

(***************************************************************************)
(* average and median.                                                     *)
(***************************************************************************)
RECURSIVE Total(_)
Total(nums) == IF nums = <<>> THEN 0 ELSE Head(nums) + Total(Tail(nums))

averageIntDiv(nums) == FloatDiv(Total(nums) \div Len(nums), 1)

average(nums) == FloatDiv(Total(nums), Len(nums))

\* median returns its result and leaves the caller's slice as `nums`:
\* sortedNums is a fresh copy, so sort.Ints never touches the argument.
medianInPlace(nums) ==
    LET sortedNums == SortInts(nums)
        n == Len(sortedNums)
    IN  [ret  |-> IF n % 2 = 0
                  THEN FloatDiv(sortedNums[n \div 2] + sortedNums[n \div 2 + 1], 2)
                  ELSE FloatDiv(sortedNums[n \div 2 + 1], 1),
         nums |-> sortedNums]

median(nums) ==
    LET sortedNums == SortInts(nums)      \* make + copy + sort.Ints
        n == Len(sortedNums)
    IN  [ret  |-> IF n % 2 = 0
                  THEN FloatDiv(sortedNums[n \div 2] + sortedNums[n \div 2 + 1], 2)
                  ELSE FloatDiv(sortedNums[n \div 2 + 1], 1),
         nums |-> nums]

(***************************************************************************)
(* PrimitiveDescription and the values of its fields.                      *)
(***************************************************************************)
TabletType_UNKNOWN == "UNKNOWN"

NoKeyspace    == [isNil |-> TRUE, Name |-> "", Sharded |-> FALSE]
Keyspace(n, sh) == [isNil |-> FALSE, Name |-> n, Sharded |-> sh]
NoDestination == [isNil |-> TRUE, str |-> ""]
Destination(s) == [isNil |-> FALSE, str |-> s]   \* str is Destination.String()

NilSlice      == [isNil |-> TRUE, elems |-> <<>>]
Slice(elems)  == [isNil |-> FALSE, elems |-> elems]
\* append(s, x): the result is never nil
AppendSlice(s, x) == [isNil |-> FALSE, elems |-> Append(s.elems, x)]

EmptyMap == [k \in {} |-> NilV]

(***************************************************************************)
(* encoding/json: what Encoder.Encode makes of each kind of value.  The    *)
(* dynamic Go type is erased: int, int64 and float64 all become a JSON     *)
(* number.  A channel has no JSON form (json.UnsupportedTypeError).        *)
(***************************************************************************)
NoJSON == [j |-> "none"]
EncodeString(s)  == [err |-> FALSE, json |-> [j |-> "string", s |-> s]]
EncodeInt(n)     == [err |-> FALSE, json |-> [j |-> "number", num |-> n, den |-> 1]]
EncodeFloat(f)   == [err |-> FALSE, json |-> [j |-> "number", num |-> f.num, den |-> f.den]]
EncodeKeyspace(ks) ==
    [err |-> FALSE,
     json |-> [j |-> "object", Name |-> ks.Name, Sharded |-> ks.Sharded]]

Encode(v) ==
    CASE v.kind = "string"   -> EncodeString(v.s)
      [] v.kind = "nil"      -> [err |-> FALSE, json |-> [j |-> "null"]]
      [] v.kind \in {"int", "int64", "float64"} -> EncodeInt(v.n)
      [] v.kind = "bool"     -> [err |-> FALSE, json |-> [j |-> "bool", b |-> v.b]]
      [] v.kind = "[]string" -> [err |-> FALSE, json |-> [j |-> "array", items |-> v.l]]
      [] v.kind = "chan"     -> [err |-> TRUE, json |-> NoJSON]

(***************************************************************************)
(* marshalAdd, addMap, MarshalJSON.  The writer's progress is a record     *)
(* [err, buf]; once err is set the caller has returned and nothing more    *)
(* is written.                                                             *)
(***************************************************************************)
Ok(buf) == [err |-> FALSE, buf |-> buf]

Field(prepend, name, json) ==
    [t |-> "field", sep |-> prepend, key |-> name, val |-> json]

marshalAddDropErr(prepend, st, name, enc) ==
    IF st.err THEN st
    ELSE [err |-> FALSE, buf |-> Append(st.buf, Field(prepend, name, enc.json))]

marshalAdd(prepend, st, name, enc) ==
    IF st.err THEN st
    ELSE [err |-> enc.err, buf |-> Append(st.buf, Field(prepend, name, enc.json))]

\* line 196: v == "" || v == nil || v == 0 || v == false
SkippedByAddMap(v) ==
    EqStringConst(v, "") \/ EqNil(v) \/ EqIntConst(v, 0) \/ EqBoolConst(v, FALSE)

RECURSIVE addEntries(_, _, _)
addEntries(input, st, mk) ==
    IF mk = <<>> THEN st
    ELSE addEntries(input,
                    marshalAdd(",", st, Head(mk), Encode(input[Head(mk)])),
                    Tail(mk))

\* iter is the order in which `range input` happens to visit the keys.
CollectKeys(input, iter) ==
    SelectSeq(iter, LAMBDA k : k \in DOMAIN input /\ ~SkippedByAddMap(input[k]))

addMapUnsorted(input, st, iter) ==
    addEntries(input, st, CollectKeys(input, iter))

addMap(input, st, iter) ==
    addEntries(input, st, SortStrings(CollectKeys(input, iter)))

FirstErr(outs) ==
    IF \E i \in 1..Len(outs) : outs[i].err
    THEN CHOOSE i \in 1..Len(outs) :
            outs[i].err /\ \A h \in 1..(i - 1) : ~outs[h].err
    ELSE Len(outs) + 1

RECURSIVE MarshalJSON(_, _)

\* Encode of pd.Inputs: the encoder calls MarshalJSON of each element in
\* turn and stops at the first error.
EncodeInputs(inputs, iter) ==
    LET outs  == [i \in 1..Len(inputs) |-> MarshalJSON(inputs[i], iter)]
        first == FirstErr(outs)
    IN  [err   |-> first <= Len(inputs),
         json  |-> IF first <= Len(inputs) THEN NoJSON
                   ELSE [j |-> "array",
                         items |-> [i \in 1..Len(inputs) |-> outs[i].bytes]],
         after |-> [i \in 1..Len(inputs) |->
                       IF i <= first THEN outs[i].pd ELSE inputs[i]]]

\* Returns bytes and err as the code does, and pd: the receiver as the call
\* leaves it (the copy shares Stats and Inputs with the caller's value).
MarshalJSON(pd, iter) ==
    LET s0 == Ok(<<[t |-> "{"]>>)
        s1 == IF pd.InputName # ""
              THEN marshalAdd("", s0, "InputName", EncodeString(pd.InputName))
              ELSE s0
        prepend1 == IF pd.InputName # "" THEN "," ELSE ""
        s2 == marshalAdd(prepend1, s1, "OperatorType", EncodeString(pd.OperatorType))
        prepend == ","
        s3 == IF pd.Variant # ""
              THEN marshalAdd(prepend, s2, "Variant", EncodeString(pd.Variant))
              ELSE s2
        s4 == IF ~pd.Keyspace.isNil
              THEN marshalAdd(prepend, s3, "Keyspace", EncodeKeyspace(pd.Keyspace))
              ELSE s3
        s5 == IF ~pd.TargetDestination.isNil
              THEN LET s == pd.TargetDestination.str
                       dest == SubSeq(s, 12, Len(s))     \* s[11:]
                   IN  marshalAdd(prepend, s4, "TargetDestination", EncodeString(dest))
              ELSE s4
        s6 == IF pd.TargetTabletType # TabletType_UNKNOWN
              THEN marshalAdd(prepend, s5, "TargetTabletType",
                              EncodeString(pd.TargetTabletType))
              ELSE s5
        hasStats == Len(pd.Stats) > 0
        med == median(pd.Stats)
        s7 == IF hasStats
              THEN marshalAdd(prepend, s6, "NoOfCalls", EncodeInt(Len(pd.Stats)))
              ELSE s6
        s8 == IF hasStats
              THEN marshalAdd(prepend, s7, "AvgNumberOfRows",
                              EncodeFloat(average(pd.Stats)))
              ELSE s7
        s9 == IF hasStats
              THEN marshalAdd(prepend, s8, "MedianNumberOfRows", EncodeFloat(med.ret))
              ELSE s8
        s10 == addMap(pd.Other, s9, iter)
        hasInputs == Len(pd.Inputs.elems) > 0
        enc == EncodeInputs(pd.Inputs.elems, iter)
        s11 == IF hasInputs
               THEN marshalAdd(prepend, s10, "Inputs", enc)
               ELSE s10
        statsAfter == IF hasStats /\ ~s8.err THEN med.nums ELSE pd.Stats
        inputsAfter == IF hasInputs /\ ~s10.err
                       THEN [pd.Inputs EXCEPT !.elems = enc.after]
                       ELSE pd.Inputs
    IN  [bytes |-> IF s11.err THEN <<>> ELSE Append(s11.buf, [t |-> "}"]),
         err   |-> s11.err,
         pd    |-> [pd EXCEPT !.Stats = statsAfter, !.Inputs = inputsAfter]]

(***************************************************************************)
(* The Primitive tree.  A plan is [n, children, infos, desc]: primitives   *)
(* are 1..n with 1 the root; for a primitive in, children[in] and          *)
(* infos[in] are the two results of in.Inputs() and desc[in] is the result *)
(* of in.description(), which carries the primitive's own fields and no    *)
(* Inputs, InputName or Stats.                                             *)
(***************************************************************************)
Put(m, k, v) == [x \in (DOMAIN m) \cup {k} |-> IF x = k THEN v ELSE m[x]]

\* lines 233-240: one iteration of `for k, v := range infos[idx]`
ApplyInfoEntryNoContinue(pd, k, v) ==
    IF k = inputName
    THEN [pd EXCEPT !.InputName = v.s, !.Other = Put(pd.Other, k, v)]
    ELSE [pd EXCEPT !.Other = Put(pd.Other, k, v)]

ApplyInfoEntry(pd, k, v) ==
    IF k = inputName
    THEN [pd EXCEPT !.InputName = v.s]                  \* v.(string); continue
    ELSE [pd EXCEPT !.Other = Put(pd.Other, k, v)]

\* the whole range loop; the keys of a map are distinct, so the order in
\* which they are visited does not show in the result
RECURSIVE ApplyInfo(_, _, _)
ApplyInfo(pd, info, keys) ==
    IF keys = {} THEN pd
    ELSE LET k == CHOOSE x \in keys : TRUE
         IN  ApplyInfo(ApplyInfoEntry(pd, k, info[k]), info, keys \ {k})

\* lines 246-248
FinishInputsKeepNil(this, inputs) == this

FinishInputs(this, inputs) ==
    IF Len(inputs) = 0 THEN [this EXCEPT !.Inputs = Slice(<<>>)] ELSE this

\* line 243, for the children in turn: this.Inputs = append(this.Inputs, pd)
RECURSIVE AppendInputs(_, _)
AppendInputs(this, pds) ==
    IF pds = <<>> THEN this
    ELSE AppendInputs([this EXCEPT !.Inputs = AppendSlice(this.Inputs, Head(pds))],
                      Tail(pds))

\* stats[in] of a Go map: the zero value (no samples) for a missing key
Lookup(st, in) == IF in \in DOMAIN st.rows THEN st.rows[in] ELSE <<>>

RECURSIVE PrimitiveToPlanDescription(_, _, _)
PrimitiveToPlanDescription(p, in, st) ==
    LET this0  == p.desc[in]
        this1  == IF ~st.isNil THEN [this0 EXCEPT !.Stats = Lookup(st, in)] ELSE this0
        inputs == p.children[in]
        infos  == p.infos[in]
        pds    == [idx \in 1..Len(inputs) |->
                     LET pd == PrimitiveToPlanDescription(p, inputs[idx], st)
                     IN  IF ~infos.isNil
                         THEN ApplyInfo(pd, infos.maps[idx], DOMAIN infos.maps[idx])
                         ELSE pd]
    IN  FinishInputs(AppendInputs(this1, pds), inputs)

(***************************************************************************)
(* Inputs of the model: plan trees, descriptions, metadata and samples.    *)
(***************************************************************************)
OpNames == <<"Join", "Route", "Limit", "Filter", "Sort", "Union">>

Description(op, variant, ks, dest, tt, other) ==
    [OperatorType |-> op, Variant |-> variant, Keyspace |-> ks,
     TargetDestination |-> dest, TargetTabletType |-> tt, Other |-> other,
     InputName |-> "", Inputs |-> NilSlice, Stats |-> <<>>]

PlainDescription(i) ==
    Description(OpNames[i], "", NoKeyspace, NoDestination, TabletType_UNKNOWN, EmptyMap)

Reverse(s) == [i \in 1..Len(s) |-> s[Len(s) + 1 - i]]

ParentMaps(n) == {f \in [2..n -> 1..n] : \A i \in 2..n : f[i] < i}

ChildrenOf(n, f, in, rev) ==
    LET asc == SelectSeq([i \in 1..n |-> i], LAMBDA i : i >= 2 /\ f[i] = in)
    IN  IF rev THEN Reverse(asc) ELSE asc

\* every tree over 1..n, n <= MaxNodes, rooted at 1, children listed in
\* ascending or in descending order
Shapes ==
    UNION { { [n |-> n, children |-> [in \in 1..n |-> ChildrenOf(n, f, in, rev)]] :
                f \in ParentMaps(n), rev \in BOOLEAN } : n \in 1..MaxNodes }

NilInfos == [isNil |-> TRUE, maps |-> <<>>]

\* A plan of shape sh in which primitive f describes itself as d and every
\* other primitive plainly.  With info = "none" no primitive supplies
\* metadata (infos is nil); otherwise every parent supplies one map per
\* child: info for f, the empty map for the others.
MakePlan(sh, f, d, withInfo, info) ==
    [n        |-> sh.n,
     children |-> sh.children,
     desc     |-> [in \in 1..sh.n |-> IF in = f THEN d ELSE PlainDescription(in)],
     infos    |-> [in \in 1..sh.n |->
                     IF ~withInfo THEN NilInfos
                     ELSE [isNil |-> FALSE,
                           maps  |-> [idx \in 1..Len(sh.children[in]) |->
                                        IF sh.children[in][idx] = f THEN info
                                        ELSE EmptyMap]]]]

NoStats == [isNil |-> TRUE, rows |-> EmptyMap]
StatsFor(f, rows) == [isNil |-> FALSE, rows |-> [in \in {f} |-> rows]]
EmptyStats == [isNil |-> FALSE, rows |-> EmptyMap]

RECURSIVE SeqsUpTo(_, _)
SeqsUpTo(S, n) ==
    IF n = 0 THEN {<<>>}
    ELSE LET shorter == SeqsUpTo(S, n - 1)
         IN  shorter \cup {Append(q, x) : <<q, x>> \in shorter \X S}

Samples == SeqsUpTo(0..MaxSample, MaxStats)

MapsOver(keys, values) == UNION {[K -> values] : K \in SUBSET keys}

Perms(S) == {q \in [1..Cardinality(S) -> S] : \A i, j \in 1..Cardinality(S) : q[i] = q[j] => i = j}

\* values a description() may put under a key of Other
ExtValues ==
    { StringV(""), StringV("y"), NilV, IntV(0), IntV(1), IntV(-1), Int64V(0),
      Float64V(0), BoolV(FALSE), BoolV(TRUE), StringsV(<<>>),
      StringsV(<<"u", "v">>), ChanV }

FieldOthers ==
    { EmptyMap,
      [k \in {"b", "a"} |-> IF k = "b" THEN IntV(1) ELSE IntV(2)],
      [k \in {"ab", "Table", "a"} |->
          IF k = "ab" THEN IntV(1) ELSE IF k = "Table" THEN StringV("t") ELSE BoolV(FALSE)],
      [k \in {"a", "b"} |-> IF k = "a" THEN IntV(1) ELSE ChanV] }

NamedInfo == [k \in {inputName} |-> StringV("Left")]

\* a shape and the primitive in it that the input varies
Foci == {sf \in Shapes \X (1..MaxNodes) : sf[2] <= sf[1].n}

Given(sh, f, d, withInfo, info, st) ==
    /\ plan = MakePlan(sh, f, d, withInfo, info)
    /\ stats = st

\* the struct fields, alone and together
FieldsFamily ==
    \E sf \in Foci, variant \in {"", "Scatter"},
       ks \in {NoKeyspace, Keyspace("ks", TRUE)},
       dest \in {NoDestination, Destination("DestinationAllShards()")},
       tt \in {TabletType_UNKNOWN, "PRIMARY"},
       other \in FieldOthers, withInfo \in BOOLEAN, withStats \in BOOLEAN :
        Given(sf[1], sf[2],
              Description(OpNames[sf[2]], variant, ks, dest, tt, other),
              withInfo, NamedInfo,
              IF withStats THEN StatsFor(sf[2], <<2, 1>>) ELSE NoStats)

\* the values of Other
ExtFamily ==
    \E sf \in Foci, other \in MapsOver({"a", "b"}, ExtValues) :
        Given(sf[1], sf[2],
              Description(OpNames[sf[2]], "", NoKeyspace, NoDestination,
                          TabletType_UNKNOWN, other),
              FALSE, EmptyMap, NoStats)

\* the row-count samples
StatsFamily ==
    \E sf \in Foci :
        \E st \in {NoStats, EmptyStats} \cup {StatsFor(sf[2], rows) : rows \in Samples} :
            Given(sf[1], sf[2], PlainDescription(sf[2]), FALSE, EmptyMap, st)

\* the per-child metadata against the child's own Other; the value under
\* "InputName" is a string, as the assertion v.(string) requires
InfoMaps ==
    { m \in MapsOver({inputName, "a", "ab"}, {StringV("Left"), StringV("y"), IntV(7)}) :
        inputName \in DOMAIN m => m[inputName].kind = "string" }

BuilderFamily ==
    \E sf \in Foci, other \in MapsOver({"a", "b"}, {IntV(1), StringV("own")}),
       info \in InfoMaps :
        Given(sf[1], sf[2],
              Description(OpNames[sf[2]], "", NoKeyspace, NoDestination,
                          TabletType_UNKNOWN, other),
              TRUE, info, NoStats)

NoResult == [bytes |-> <<>>, err |-> FALSE]
NoGraph  == [nodes |-> <<>>, edges |-> <<>>]

(***************************************************************************)
(* The caller: build a description, then serialize it.                     *)
(***************************************************************************)
Init ==
    /\ FieldsFamily \/ ExtFamily \/ StatsFamily \/ BuilderFamily
    /\ description = PlainDescription(1)
    /\ result = NoResult
    /\ g = NoGraph
    /\ todo = <<>>
    /\ pc = "start"

Build ==
    /\ pc = "start"
    /\ description' = PrimitiveToPlanDescription(plan, 1, stats)
    /\ pc' = "built"
    /\ UNCHANGED <<plan, stats, result, g, todo>>

RECURSIVE OtherKeys(_)
OtherKeys(pd) ==
    (DOMAIN pd.Other) \cup
        UNION {OtherKeys(pd.Inputs.elems[i]) : i \in 1..Len(pd.Inputs.elems)}

\* json.Marshal(description); iter is the order in which the range loops of
\* addMap visit the keys
Marshal ==
    /\ pc = "built"
    /\ \E iter \in Perms(OtherKeys(description)) :
         LET out == MarshalJSON(description, iter)
         IN  /\ result' = [bytes |-> out.bytes, err |-> out.err]
             /\ description' = out.pd
    /\ pc' = "marshalled"
    /\ UNCHANGED <<plan, stats, g, todo>>

Next == Build \/ Marshal

Spec == Init /\ [][Next]_vars

(***************************************************************************)
(* The graphviz package as this file uses it: a graph is the sequence of   *)
(* its nodes and the sequence of its edges; a *Node is an index into       *)
(* nodes.  Two fields are bookkeeping of the model and not part of the     *)
(* graph: `path`, the position in the description tree of the node a       *)
(* graph node was made for, and `from`, the key of Other an attribute was  *)
(* made for.                                                               *)
(***************************************************************************)
AddNode(gr, name, path) ==
    [gr EXCEPT !.nodes = Append(@, [name |-> name, attrs |-> <<>>,
                                    tooltip |-> "", path |-> path])]

AddAttribute(node, from, text) ==
    [node EXCEPT !.attrs = Append(@, [from |-> from, text |-> text])]

AddTooltip(node, text) == [node EXCEPT !.tooltip = text]

AddEdge(gr, from, to) == [gr EXCEPT !.edges = Append(@, [from |-> from, to |-> to])]

\* fmt's %v
RECURSIVE JoinStrings(_)
JoinStrings(l) ==
    IF l = <<>> THEN ""
    ELSE IF Len(l) = 1 THEN l[1]
    ELSE l[1] \o " " \o JoinStrings(Tail(l))

Sprint(v) ==
    CASE v.kind = "string"   -> v.s
      [] v.kind = "nil"      -> "<nil>"
      [] v.kind \in {"int", "int64", "float64"} -> ToString(v.n)
      [] v.kind = "bool"     -> IF v.b THEN "true" ELSE "false"
      [] v.kind = "[]string" -> "[" \o JoinStrings(v.l) \o "]"
      [] v.kind = "chan"     -> "0xc000010000"

RECURSIVE AddAttributes(_, _, _)
AddAttributes(node, from, texts) ==
    IF texts = <<>> THEN node
    ELSE AddAttributes(AddAttribute(node, from, Head(texts)), from, Tail(texts))

\* lines 160-175: the body of `for k, v := range pd.Other`
RenderEntryNoHeader(this, k, v) ==
    CASE k = "Query"      -> AddTooltip(this, Sprint(v))
      [] k = "FieldQuery" -> this
      [] OTHER ->
            IF v.kind = "[]string"
            THEN AddAttributes(this, k, v.l)
            ELSE AddAttribute(this, k, k \o ":" \o Sprint(v))

RenderEntryQueryVisible(this, k, v) ==
    CASE k = "FieldQuery" -> this
      [] OTHER ->
            IF v.kind = "[]string"
            THEN AddAttributes(AddAttribute(this, k, k), k, v.l)
            ELSE AddAttribute(this, k, k \o ":" \o Sprint(v))

RenderEntry(this, k, v) ==
    CASE k = "Query"      -> AddTooltip(this, Sprint(v))
      [] k = "FieldQuery" -> this
      [] OTHER ->
            IF v.kind = "[]string"        \* slice, ok := v.([]string)
            THEN AddAttributes(AddAttribute(this, k, k), k, v.l)
            ELSE AddAttribute(this, k, k \o ":" \o Sprint(v))

RECURSIVE RenderEntries(_, _, _)
RenderEntries(this, other, iter) ==
    IF iter = <<>> THEN this
    ELSE RenderEntries(RenderEntry(this, Head(iter), other[Head(iter)]), other, Tail(iter))

\* lines 154-157
NodeName(pd) ==
    IF pd.Variant = "" THEN pd.OperatorType ELSE pd.OperatorType \o ":" \o pd.Variant

\* The calls addToGraph makes on the graph for pd, in the order it makes
\* them: the calls of the children first, then AddNode for pd (with its
\* attributes and tooltip), then one AddEdge per child.
EdgeOps(path, n) == [i \in 1..n |-> [op |-> "edge", from |-> path, to |-> Append(path, i)]]

RECURSIVE ChildOps(_, _, _)

addToGraphNodeFirst(pd, path) ==
    <<[op |-> "node", path |-> path]>>
        \o ChildOps(pd, path, 1)
        \o EdgeOps(path, Len(pd.Inputs.elems))

addToGraph(pd, path) ==
    ChildOps(pd, path, 1)
        \o <<[op |-> "node", path |-> path]>>
        \o EdgeOps(path, Len(pd.Inputs.elems))

ChildOps(pd, path, i) ==
    IF i > Len(pd.Inputs.elems) THEN <<>>
    ELSE addToGraph(pd.Inputs.elems[i], Append(path, i)) \o ChildOps(pd, path, i + 1)

RECURSIVE NodeAt(_, _)
NodeAt(pd, path) ==
    IF path = <<>> THEN pd ELSE NodeAt(pd.Inputs.elems[Head(path)], Tail(path))

\* the *Node addToGraph returned for the description node at path
NodeFor(gr, path) == CHOOSE i \in 1..Len(gr.nodes) : gr.nodes[i].path = path

GraphValues == {StringV("SELECT 1"), StringsV(<<"u", "v">>), StringsV(<<>>), IntV(0)}
GraphKeys   == {"Query", "FieldQuery", "Table", "Values"}
QueryValues == {StringV("SELECT 1"), StringsV(<<"u", "v">>)}
GraphOthers ==
    { m \in MapsOver(GraphKeys, GraphValues) :
        \A k \in {"Query", "FieldQuery"} \cap DOMAIN m : m[k] \in QueryValues }

GraphFamily ==
    \E sf \in Foci, variant \in {"", "Scatter"},
       other \in GraphOthers :
        Given(sf[1], sf[2],
              Description(OpNames[sf[2]], variant, NoKeyspace, NoDestination,
                          TabletType_UNKNOWN, other),
              FALSE, EmptyMap, NoStats)

InitGraph ==
    /\ GraphFamily
    /\ description = PlainDescription(1)
    /\ result = NoResult
    /\ g = NoGraph
    /\ todo = <<>>
    /\ pc = "start"

\* GraphViz(p) up to its call of addToGraph
GraphViz ==
    /\ pc = "start"
    /\ description' = PrimitiveToPlanDescription(plan, 1, NoStats)
    /\ g' = NoGraph
    /\ todo' = addToGraph(description', <<>>)
    /\ pc' = "graph"
    /\ UNCHANGED <<plan, stats, result>>

\* this := g.AddNode(name) and the range over pd.Other, visited in the
\* order iter
GraphAddNode ==
    /\ pc = "graph"
    /\ todo # <<>>
    /\ Head(todo).op = "node"
    /\ LET pd == NodeAt(description, Head(todo).path)
           g1 == AddNode(g, NodeName(pd), Head(todo).path)
           this == Len(g1.nodes)
       IN  \E iter \in Perms(DOMAIN pd.Other) :
              g' = [g1 EXCEPT !.nodes[this] = RenderEntries(@, pd.Other, iter)]
    /\ todo' = Tail(todo)
    /\ pc' = IF Tail(todo) = <<>> THEN "done" ELSE "graph"
    /\ UNCHANGED <<plan, stats, description, result>>

\* g.AddEdge(this, n)
GraphAddEdge ==
    /\ pc = "graph"
    /\ todo # <<>>
    /\ Head(todo).op = "edge"
    /\ g' = AddEdge(g, NodeFor(g, Head(todo).from), NodeFor(g, Head(todo).to))
    /\ todo' = Tail(todo)
    /\ pc' = IF Tail(todo) = <<>> THEN "done" ELSE "graph"
    /\ UNCHANGED <<plan, stats, description, result>>

NextGraph == GraphViz \/ GraphAddNode \/ GraphAddEdge

SpecGraph == InitGraph /\ [][NextGraph]_vars

(***************************************************************************)
(* Reading a description tree and its serialized form side by side.        *)
(***************************************************************************)
FieldsOf(bytes) == SelectSeq(bytes, LAMBDA t : t.t = "field")
KeysOf(bytes)   == [i \in 1..Len(FieldsOf(bytes)) |-> FieldsOf(bytes)[i].key]
KeySet(bytes)   == {KeysOf(bytes)[i] : i \in 1..Len(KeysOf(bytes))}
ValueOf(bytes, k) ==
    LET F == FieldsOf(bytes)
    IN  F[CHOOSE i \in 1..Len(F) : F[i].key = k].val

\* every node of a built tree with the primitive it was built from:
\* [pd, in, parent, idx] (parent = 0 for the root)
RECURSIVE BuiltNodes(_, _, _, _)
BuiltNodes(pd, in, parent, idx) ==
    {[pd |-> pd, in |-> in, parent |-> parent, idx |-> idx]} \cup
    UNION { BuiltNodes(pd.Inputs.elems[i], plan.children[in][i], in, i) :
              i \in 1..Len(pd.Inputs.elems) }

\* every node of a serialized tree with its own JSON object: [pd, in, out]
RECURSIVE Serialized(_, _, _)
Serialized(pd, in, out) ==
    {[pd |-> pd, in |-> in, out |-> out]} \cup
    UNION { Serialized(pd.Inputs.elems[i], plan.children[in][i],
                       ValueOf(out, "Inputs").items[i]) :
              i \in 1..Len(pd.Inputs.elems) }

Marshalled == pc = "marshalled" /\ ~result.err
Written    == Serialized(description, 1, result.bytes)

(***************************************************************************)
(* C1.  MarshalJSON writes the keys of every node in one fixed order:      *)
(* InputName, OperatorType, Variant, Keyspace, TargetDestination,          *)
(* TargetTabletType, NoOfCalls, AvgNumberOfRows, MedianNumberOfRows, the   *)
(* keys of Other in ascending byte order, Inputs; each fixed key is        *)
(* present exactly under its condition, and a node without children has    *)
(* no Inputs key.                                                          *)
(***************************************************************************)
KeyRank(k) ==
    CASE k = "InputName" -> 1 [] k = "OperatorType" -> 2 [] k = "Variant" -> 3
      [] k = "Keyspace" -> 4 [] k = "TargetDestination" -> 5
      [] k = "TargetTabletType" -> 6 [] k = "NoOfCalls" -> 7
      [] k = "AvgNumberOfRows" -> 8 [] k = "MedianNumberOfRows" -> 9
      [] k = "Inputs" -> 11 [] OTHER -> 10

StatsKeys == {"NoOfCalls", "AvgNumberOfRows", "MedianNumberOfRows"}

InOrder(keys) ==
    \A i, j \in 1..Len(keys) :
        i < j => \/ KeyRank(keys[i]) < KeyRank(keys[j])
                 \/ /\ KeyRank(keys[i]) = 10
                    /\ KeyRank(keys[j]) = 10
                    /\ StringLess(keys[i], keys[j])

PresentAsSpecified(pd, ks) ==
    /\ "InputName" \in ks <=> pd.InputName # ""
    /\ "OperatorType" \in ks
    /\ "Variant" \in ks <=> pd.Variant # ""
    /\ "Keyspace" \in ks <=> ~pd.Keyspace.isNil
    /\ "TargetDestination" \in ks <=> ~pd.TargetDestination.isNil
    /\ "TargetTabletType" \in ks <=> pd.TargetTabletType # "UNKNOWN"
    /\ \A k \in StatsKeys : k \in ks <=> pd.Stats # <<>>
    /\ "Inputs" \in ks <=> pd.Inputs.elems # <<>>
    /\ \A k \in ks : KeyRank(k) = 10 => k \in DOMAIN pd.Other

C1_FixedEmissionOrder ==
    Marshalled =>
        \A v \in Written :
            InOrder(KeysOf(v.out)) /\ PresentAsSpecified(v.pd, KeySet(v.out))

\* a child that carries every field, under a root that has an Inputs key
C1_Witness ==
    /\ Marshalled
    /\ "Inputs" \in KeySet(result.bytes)
    /\ \E v \in Written :
         KeysOf(v.out) = <<"InputName", "OperatorType", "Variant", "Keyspace",
                           "TargetDestination", "TargetTabletType", "NoOfCalls",
                           "AvgNumberOfRows", "MedianNumberOfRows", "a", "b">>

(***************************************************************************)
(* C2.  A key of Other is left out of the output if and only if its value  *)
(* is the empty string, nil, a numeric zero or false.  (As stated: a zero  *)
(* of any numeric type.)                                                   *)
(***************************************************************************)
IsNumericZero(v) == v.kind \in {"int", "int64", "float64"} /\ v.n = 0

SkippedAsSpecified(v) ==
    \/ v.kind = "string" /\ v.s = ""
    \/ v.kind = "nil"
    \/ IsNumericZero(v)
    \/ v.kind = "bool" /\ ~v.b

C2_SkippedIffDefaultValue ==
    Marshalled =>
        \A v \in Written : \A k \in DOMAIN v.pd.Other :
            k \notin KeySet(v.out) <=> SkippedAsSpecified(v.pd.Other[k])

(***************************************************************************)
(* C3.  NoOfCalls, AvgNumberOfRows and MedianNumberOfRows are written      *)
(* together exactly when the node has samples, and then hold the number of *)
(* samples, their mean and their median.                                   *)
(***************************************************************************)
SumOf(s) ==
    LET acc[i \in 0..Len(s)] == IF i = 0 THEN 0 ELSE acc[i - 1] + s[i]
    IN  acc[Len(s)]

\* the k-th smallest sample
Kth(s, k) ==
    CHOOSE x \in {s[i] : i \in 1..Len(s)} :
        /\ Cardinality({i \in 1..Len(s) : s[i] < x}) < k
        /\ Cardinality({i \in 1..Len(s) : s[i] <= x}) >= k

IsMean(val, s)   == val.j = "number" /\ val.num * Len(s) = SumOf(s) * val.den
IsMedian(val, s) ==
    /\ val.j = "number"
    /\ IF Len(s) % 2 = 0
       THEN 2 * val.num = (Kth(s, Len(s) \div 2) + Kth(s, Len(s) \div 2 + 1)) * val.den
       ELSE val.num = Kth(s, (Len(s) + 1) \div 2) * val.den

C3_StatsKeysTogether ==
    Marshalled =>
        \A v \in Written :
            LET s == v.pd.Stats
            IN  IF s # <<>>
                THEN /\ StatsKeys \subseteq KeySet(v.out)
                     /\ ValueOf(v.out, "NoOfCalls") = [j |-> "number", num |-> Len(s), den |-> 1]
                     /\ IsMean(ValueOf(v.out, "AvgNumberOfRows"), s)
                     /\ IsMedian(ValueOf(v.out, "MedianNumberOfRows"), s)
                ELSE StatsKeys \cap KeySet(v.out) = {}

\* samples whose mean is not a whole number
C3_Witness ==
    /\ Marshalled
    /\ \E v \in Written :
         /\ v.pd.Stats = <<2, 0, 2>>
         /\ ValueOf(v.out, "AvgNumberOfRows") = [j |-> "number", num |-> 4, den |-> 3]
    /\ \E v \in Written : v.pd.Stats = <<>> /\ StatsKeys \cap KeySet(v.out) = {}

(***************************************************************************)
(* C4.  A child whose parent supplies a metadata entry takes the value     *)
(* under "InputName" as its InputName and gets no "InputName" key in       *)
(* Other; every other metadata key is written into the child's Other,      *)
(* over any value the child's own description() set; the keys the          *)
(* metadata does not name keep the child's own values.                     *)
(***************************************************************************)
Built == pc = "built"

MetadataApplied(pd, own, info) ==
    /\ inputName \in DOMAIN info =>
          pd.InputName = info[inputName].s /\ inputName \notin DOMAIN pd.Other
    /\ \A k \in (DOMAIN info) \ {inputName} :
          k \in DOMAIN pd.Other /\ pd.Other[k] = info[k]
    /\ \A k \in (DOMAIN own) \ (DOMAIN info) :
          k \in DOMAIN pd.Other /\ pd.Other[k] = own[k]
    /\ DOMAIN pd.Other \subseteq (DOMAIN own) \cup (DOMAIN info)

C4_MetadataMerge ==
    Built =>
        \A v \in BuiltNodes(description, 1, 0, 0) :
            (v.parent # 0 /\ ~plan.infos[v.parent].isNil) =>
                MetadataApplied(v.pd, plan.desc[v.in].Other,
                                plan.infos[v.parent].maps[v.idx])

\* a role name, a key that overwrites the child's own and a key left alone
C4_Witness ==
    /\ Built
    /\ \E v \in BuiltNodes(description, 1, 0, 0) :
         /\ v.parent # 0
         /\ ~plan.infos[v.parent].isNil
         /\ LET info == plan.infos[v.parent].maps[v.idx]
                own  == plan.desc[v.in].Other
            IN  /\ {inputName, "a"} \subseteq DOMAIN info
                /\ {"a", "b"} \subseteq DOMAIN own
                /\ own["a"] # info["a"]
                /\ v.pd.InputName = "Left"

(***************************************************************************)
(* C5.  The built tree mirrors the plan tree node for node: at every node  *)
(* Inputs is a non-nil slice with one element per child, the i-th built    *)
(* from the i-th child; at a leaf it is the empty non-nil slice.           *)
(***************************************************************************)
RECURSIVE Mirrors(_, _)
Mirrors(pd, in) ==
    /\ pd.OperatorType = plan.desc[in].OperatorType
    /\ ~pd.Inputs.isNil
    /\ Len(pd.Inputs.elems) = Len(plan.children[in])
    /\ \A i \in 1..Len(plan.children[in]) :
          i <= Len(pd.Inputs.elems) /\ Mirrors(pd.Inputs.elems[i], plan.children[in][i])

C5_InputsMirrorPlan == Built => Mirrors(description, 1)

\* a root whose two children are listed out of numeric order, both leaves
C5_Witness ==
    /\ Built
    /\ plan.children[1] = <<3, 2>>
    /\ description.Inputs.elems[1].OperatorType = OpNames[3]
    /\ description.Inputs.elems[1].Inputs = Slice(<<>>)

(***************************************************************************)
(* C8.  MarshalJSON of the root fails, returning no bytes, exactly when    *)
(* some value of the node or of a node below it cannot be encoded;         *)
(* otherwise it returns a complete object.  Missing samples and missing    *)
(* metadata are no error.                                                  *)
(***************************************************************************)
RECURSIVE HasUnencodable(_)
HasUnencodable(pd) ==
    \/ \E k \in DOMAIN pd.Other : pd.Other[k].kind = "chan"
    \/ \E i \in 1..Len(pd.Inputs.elems) : HasUnencodable(pd.Inputs.elems[i])

CompleteObject(bytes) ==
    /\ Len(bytes) >= 3
    /\ bytes[1].t = "{"
    /\ bytes[Len(bytes)].t = "}"
    /\ \A i \in 2..(Len(bytes) - 1) : bytes[i].t = "field" /\ bytes[i].val.j # "none"

C8_ErrorAndNoPartialOutput ==
    pc = "marshalled" =>
        /\ result.err <=> HasUnencodable(description)
        /\ result.err => result.bytes = <<>>
        /\ ~result.err => CompleteObject(result.bytes)
        /\ (stats.isNil \/ \A in \in 1..plan.n : plan.infos[in].isNil) =>
              (result.err => HasUnencodable(description))

\* the value that cannot be encoded sits in a child, after encodable fields
C8_Witness ==
    /\ pc = "marshalled"
    /\ result.err
    /\ result.bytes = <<>>
    /\ \A k \in DOMAIN description.Other : description.Other[k].kind # "chan"
    /\ stats.isNil
    /\ plan.infos[1].isNil

(***************************************************************************)
(* C9.  median is the middle sample of the ascending order for an odd      *)
(* count and the mean of the two middle samples for an even count, and     *)
(* the caller's samples are, after the call, the same elements in the      *)
(* same order: serializing a description leaves every Stats as the         *)
(* builder took it from the stats map.                                     *)
(***************************************************************************)
C9_MedianLeavesSamples ==
    pc = "marshalled" =>
        \A v \in BuiltNodes(description, 1, 0, 0) :
            /\ v.pd.Stats = IF stats.isNil THEN <<>> ELSE Lookup(stats, v.in)
            /\ v.pd.Stats # <<>> =>
                  /\ IsMedian(EncodeFloat(median(v.pd.Stats).ret).json, v.pd.Stats)
                  /\ median(v.pd.Stats).nums = v.pd.Stats

\* unsorted samples, an odd and an even count
C9_Witness ==
    /\ Marshalled
    /\ \E v \in Written :
         /\ v.pd.Stats \in {<<2, 0, 1>>, <<2, 1>>}
         /\ Lookup(stats, v.in) = v.pd.Stats
         /\ ValueOf(v.out, "MedianNumberOfRows").num \in {1, 3}

(***************************************************************************)
(* Reading a graph against the description tree it is made from.           *)
(***************************************************************************)
RECURSIVE AllPaths(_)
AllPaths(pd) ==
    {<<>>} \cup UNION { {<<i>> \o q : q \in AllPaths(pd.Inputs.elems[i])} :
                          i \in 1..Len(pd.Inputs.elems) }

IsBelow(q, p)   == Len(p) < Len(q) /\ SubSeq(q, 1, Len(p)) = p
IsChildOf(q, p) == Len(q) = Len(p) + 1 /\ SubSeq(q, 1, Len(p)) = p

Exporting == pc \in {"graph", "done"}
GraphPaths == {g.nodes[i].path : i \in 1..Len(g.nodes)}
AttrsFor(node, k) ==
    LET own == SelectSeq(node.attrs, LAMBDA a : a.from = k)
    IN  [i \in 1..Len(own) |-> own[i].text]

(***************************************************************************)
(* C6, as amended.  An entry of Other (key other than "Query" and          *)
(* "FieldQuery") whose value is a []string adds the key itself as an       *)
(* attribute and then one attribute per element, in order: one more        *)
(* attribute than the slice has elements.  Any other value adds exactly    *)
(* one attribute "key:value".                                              *)
(***************************************************************************)
Visible(pd) == (DOMAIN pd.Other) \ {"Query", "FieldQuery"}

C6_SliceAddsKeyThenElements ==
    Exporting =>
        \A i \in 1..Len(g.nodes) :
            LET pd == NodeAt(description, g.nodes[i].path)
            IN  \A k \in Visible(pd) :
                    LET v == pd.Other[k]
                        added == AttrsFor(g.nodes[i], k)
                    IN  IF v.kind = "[]string"
                        THEN added = <<k>> \o v.l /\ Len(added) = Len(v.l) + 1
                        ELSE added = <<k \o ":" \o Sprint(v)>>

(***************************************************************************)
(* C6, as stated.  The attributes added for a []string entry are exactly   *)
(* the elements of the slice, as many as the slice has elements; any       *)
(* other value adds exactly one attribute "key:value".                     *)
(***************************************************************************)
C6_SliceAddsOnlyElements ==
    Exporting =>
        \A i \in 1..Len(g.nodes) :
            LET pd == NodeAt(description, g.nodes[i].path)
            IN  \A k \in Visible(pd) :
                    LET v == pd.Other[k]
                        added == AttrsFor(g.nodes[i], k)
                    IN  IF v.kind = "[]string"
                        THEN added = v.l /\ Len(added) = Len(v.l)
                        ELSE added = <<k \o ":" \o Sprint(v)>>

\* a node made from a two-element slice and from a number
C6_Witness ==
    /\ pc = "done"
    /\ \E i \in 1..Len(g.nodes) :
         LET pd == NodeAt(description, g.nodes[i].path)
         IN  /\ "Table" \in DOMAIN pd.Other
             /\ pd.Other["Table"] = StringsV(<<"u", "v">>)
             /\ AttrsFor(g.nodes[i], "Table") = <<"Table", "u", "v">>
    /\ \E i \in 1..Len(g.nodes) :
         AttrsFor(g.nodes[i], "Values") = <<"Values:0">>

(***************************************************************************)
(* C7.  On every node, "Query" makes the tooltip and no attribute, and     *)
(* "FieldQuery" makes neither, whatever their values are.                  *)
(***************************************************************************)
C7_QueryIsTooltipOnly ==
    Exporting =>
        \A i \in 1..Len(g.nodes) :
            LET pd == NodeAt(description, g.nodes[i].path)
                node == g.nodes[i]
            IN  /\ AttrsFor(node, "Query") = <<>>
                /\ AttrsFor(node, "FieldQuery") = <<>>
                /\ Len(node.attrs) =
                      Len(SelectSeq(node.attrs, LAMBDA a : a.from \in Visible(pd)))
                /\ node.tooltip = IF "Query" \in DOMAIN pd.Other
                                  THEN Sprint(pd.Other["Query"])
                                  ELSE ""

\* both keys hold a slice of strings
C7_Witness ==
    /\ pc = "done"
    /\ \E i \in 1..Len(g.nodes) :
         LET pd == NodeAt(description, g.nodes[i].path)
         IN  /\ {"Query", "FieldQuery"} \subseteq DOMAIN pd.Other
             /\ pd.Other["Query"] = StringsV(<<"u", "v">>)
             /\ pd.Other["FieldQuery"] = StringsV(<<"u", "v">>)
             /\ g.nodes[i].tooltip = "[u v]"
             /\ g.nodes[i].attrs = <<>>

(***************************************************************************)
(* C10.  The export is bottom-up.  At every moment, a node in the graph    *)
(* has the nodes of all its descendants before it, and an edge joins a     *)
(* node already in the graph, all of whose children are in the graph, to   *)
(* one of them.  On completion the graph has exactly one node per          *)
(* description node and exactly one edge parent -> child per parent/child  *)
(* pair, and no other edge.                                                *)
(***************************************************************************)
EdgePairs == {<<g.nodes[g.edges[e].from].path, g.nodes[g.edges[e].to].path>> :
                e \in 1..Len(g.edges)}

C10_BottomUp ==
    Exporting =>
        /\ \A i \in 1..Len(g.nodes) :
              \A q \in AllPaths(description) :
                  IsBelow(q, g.nodes[i].path) =>
                      \E h \in 1..(i - 1) : g.nodes[h].path = q
        /\ \A e \in 1..Len(g.edges) :
              /\ g.edges[e].from \in 1..Len(g.nodes)
              /\ g.edges[e].to \in 1..Len(g.nodes)
              /\ \A q \in AllPaths(description) :
                    IsChildOf(q, g.nodes[g.edges[e].from].path) => q \in GraphPaths
        /\ pc = "done" =>
              /\ GraphPaths = AllPaths(description)
              /\ Len(g.nodes) = Cardinality(AllPaths(description))
              /\ EdgePairs = {pq \in AllPaths(description) \X AllPaths(description) :
                                IsChildOf(pq[2], pq[1])}
              /\ Len(g.edges) = Cardinality(EdgePairs)

\* a chain of three: the grandchild is first, the root last
C10_Witness ==
    /\ pc = "done"
    /\ Len(g.nodes) = 3
    /\ g.nodes[1].path = <<1, 1>>
    /\ g.nodes[3].path = <<>>
    /\ g.edges = <<[from |-> 2, to |-> 1], [from |-> 3, to |-> 2]>>

====
